---- MODULE Spec2Model ----
(***************************************************************************)
(* ChatLlamaCpp (langchain_community/chat_models/llamacpp.py): the chat    *)
(* adapter around a llama-cpp-python session.  The model follows the       *)
(* adapter through construction (validate_environment), non-streaming      *)
(* generation (_generate), streaming generation (_stream, one step per     *)
(* chunk the caller pulls), tool binding (bind_tools) and the              *)
(* structured-output pipeline (with_structured_output).                    *)
(*                                                                         *)
(* Python values are encoded so that every field keeps one TLA+ type:      *)
(*   Optional[List[str]]  None is <<>>, a list l is <<l>>                  *)
(*   Optional[str]        None is the string "None"                        *)
(*   floats               their decimal text ("0.8")                       *)
(*   a dict               a record                                         *)
(***************************************************************************)
EXTENDS Integers, Sequences, FiniteSets, TLC

VARIABLES
    pc,        \* "new" before construction, then "ready" or "failed"
    env,       \* what the environment does at construction
    values,    \* the keyword arguments the constructor was called with
    self,      \* the adapter's fields (pydantic values after validation)
    ctorErr,   \* the exception construction raised, "none" when it returned
    nclients,  \* native sessions constructed so far (calls of Llama(...))
    held,      \* the derived object the caller holds: bound model or pipeline
    bindOut,   \* outcome of the last bind_tools / with_structured_output call
    call,      \* the generation call being observed (_generate or _stream)
    out        \* outcome of the last invocation of the structured pipeline

vars == <<pc, env, values, self, ctorErr, nclients, held, bindOut, call, out>>

----------------------------------------------------------------------------
(* Bounds of the model *)

\* native streaming events of one generation call
MaxEvents == 3
\* tools passed to one bind_tools call
MaxTools == 2
\* choices in one non-streaming native response
MaxChoices == 2

----------------------------------------------------------------------------
(* Python values *)

None == "None"

NoList == << >>
Some(l) == << l >>

\* truthiness of an Optional[str] / Optional[object] field
Truthy(v) == v # None /\ v # ""

\* `x or []` for an Optional[List[str]]
OrEmptyList(x) == IF x = NoList THEN << >> ELSE x[1]

\* {**a, **b}: the right operand wins
Merge(a, b) ==
    [k \in (DOMAIN a) \cup (DOMAIN b) |-> IF k \in DOMAIN b THEN b[k] ELSE a[k]]

\* dict.pop(key) / del dict[key]
Pop(d, key) == [k \in (DOMAIN d) \ {key} |-> d[k]]

\* dict[key] = v
SetKey(d, key, v) == [k \in (DOMAIN d) \cup {key} |-> IF k = key THEN v ELSE d[k]]

EmptyDict == [k \in {} |-> None]

----------------------------------------------------------------------------
(* Configuration and construction: validate_environment *)

\* class-level field defaults that no modelled call changes
FieldDefaults ==
    [ max_tokens     |-> 256,
      temperature    |-> "0.8",
      top_p          |-> "0.95",
      logprobs       |-> None,
      repeat_penalty |-> "1.1",
      top_k          |-> 40 ]

\* stop: None, the empty list (the field's default), a list of one sequence
StopOptions == { NoList, Some(<< >>), Some(<< "STOP" >>) }
GrammarOptions == { None, "root ::= x" }
GrammarPathOptions == { None, "g.gbnf" }

\* keyword arguments of the constructor
ValuesSet ==
    [ streaming    : BOOLEAN,
      stop         : StopOptions,
      grammar      : GrammarOptions,
      grammar_path : GrammarPathOptions ]

\* the environment at construction: is llama_cpp importable, does Llama(...) load
EnvSet == [ importable : BOOLEAN, loads : BOOLEAN ]

NoValues == [ streaming |-> FALSE, stop |-> NoList, grammar |-> None,
              grammar_path |-> None ]
NoEnv == [ importable |-> FALSE, loads |-> FALSE ]

\* LlamaGrammar.from_string(text) / LlamaGrammar.from_file(path)
LlamaGrammarFromString(text) == "LlamaGrammar.from_string(" \o text \o ")"
LlamaGrammarFromFile(path) == "LlamaGrammar.from_file(" \o path \o ")"

\* the object under construction: the supplied values over the defaults
Fields(v) ==
    [ client         |-> None,
      streaming      |-> v.streaming,
      stop           |-> v.stop,
      grammar        |-> v.grammar,
      grammar_path   |-> v.grammar_path,
      max_tokens     |-> FieldDefaults.max_tokens,
      temperature    |-> FieldDefaults.temperature,
      top_p          |-> FieldDefaults.top_p,
      top_k          |-> FieldDefaults.top_k,
      logprobs       |-> FieldDefaults.logprobs,
      repeat_penalty |-> FieldDefaults.repeat_penalty ]

\* variant: no check that only one of the two grammar fields is given
GrammarStepNoConflictCheck(vals) ==
    IF vals.grammar # None
    THEN [ err |-> "none",
           vals |-> [vals EXCEPT !.grammar = LlamaGrammarFromString(vals.grammar)] ]
    ELSE IF Truthy(vals.grammar_path)
    THEN [ err |-> "none",
           vals |-> [vals EXCEPT !.grammar = LlamaGrammarFromFile(vals.grammar_path)] ]
    ELSE [ err |-> "none", vals |-> vals ]

\* the grammar branch of validate_environment, after the session was built
GrammarStep(vals) ==
    IF Truthy(vals.grammar) /\ Truthy(vals.grammar_path)
    THEN [ err |-> "ConfigurationError", vals |-> vals ]
    ELSE IF vals.grammar # None   \* isinstance(values["grammar"], str)
    THEN [ err |-> "none",
           vals |-> [vals EXCEPT !.grammar = LlamaGrammarFromString(vals.grammar)] ]
    ELSE IF Truthy(vals.grammar_path)
    THEN [ err |-> "none",
           vals |-> [vals EXCEPT !.grammar = LlamaGrammarFromFile(vals.grammar_path)] ]
    ELSE [ err |-> "none", vals |-> vals ]

\* validate_environment: the import, the session, then the grammar.
\* Result: the error raised ("none": returned), the values, sessions constructed.
validate_environment(vals, e) ==
    IF ~e.importable
    THEN [ err |-> "ImportError", vals |-> vals, built |-> 0 ]
    ELSE IF ~e.loads
    THEN [ err |-> "ModelLoadError", vals |-> vals, built |-> 0 ]
    ELSE LET withClient == [vals EXCEPT !.client = "Llama"]
             g == GrammarStep(withClient)
         IN  [ err |-> g.err, vals |-> g.vals, built |-> 1 ]

----------------------------------------------------------------------------
(* Default parameters: _default_params and _get_parameters *)

\* the property builds a new dict on every access
DefaultParamsBase(s) ==
    [ max_tokens     |-> s.max_tokens,
      temperature    |-> s.temperature,
      top_p          |-> s.top_p,
      top_k          |-> s.top_k,
      logprobs       |-> s.logprobs,
      stop_sequences |-> s.stop,
      repeat_penalty |-> s.repeat_penalty ]

_default_params(s) ==
    IF Truthy(s.grammar)
    THEN SetKey(DefaultParamsBase(s), "grammar", s.grammar)
    ELSE DefaultParamsBase(s)

\* variant: the native key is added and the conventional key is left in
GetParametersKeepingStopSequences(s) ==
    SetKey(_default_params(s), "stop", OrEmptyList(s.stop))

\* the dict _get_parameters returns
_get_parameters(s) ==
    SetKey(Pop(_default_params(s), "stop_sequences"), "stop", OrEmptyList(s.stop))

\* variant: the stop default is written to the field (self.stop = self.stop or [])
SelfAfterGetParametersStopWritten(s) == [s EXCEPT !.stop = Some(OrEmptyList(s.stop))]

\* the adapter after _get_parameters ran: pop and the assignment act on the
\* dict the property built, no field is written
SelfAfterGetParameters(s) == s

----------------------------------------------------------------------------
(* Messages and native events *)

\* the chat history of a call (BaseMessage objects)
Messages == << [ type |-> "human", content |-> "hi" ] >>

RoleOf(type) ==
    CASE type = "human"  -> "user"
      [] type = "ai"     -> "assistant"
      [] type = "system" -> "system"
      [] OTHER           -> type

\* _convert_message_to_dict, one dict per message, in order
_convert_message_to_dict(m) == [ role |-> RoleOf(m.type), content |-> m.content ]

_create_message_dicts(messages) ==
    [ i \in 1..Len(messages) |-> _convert_message_to_dict(messages[i]) ]

\* a delta is Optional: None is <<>>, a delta dict d is <<d>>
NoDelta == << >>

\* The three shapes of a native streaming event.  The text of a delta is a
\* sequence of tokens; the i-th event of a stream carries the token i, so that
\* the order of the chunks can be read off their text.
EventKinds == { "empty", "null", "delta" }

MkEvent(kind, i) ==
    CASE kind = "empty" -> [ choices |-> << >> ]
      [] kind = "null"  -> [ choices |-> << [ delta |-> NoDelta,
                                              finish_reason |-> None,
                                              logprobs |-> None ] >> ]
      [] OTHER          -> [ choices |-> << [ delta |-> << [ content |-> << i >> ] >>,
                                              finish_reason |-> None,
                                              logprobs |-> None ] >> ]

\* sequences of event kinds of length n, and of length at most n
KindSeqsOfLen(n) == [ 1..n -> EventKinds ]
KindSeqs(n) == UNION { KindSeqsOfLen(k) : k \in 0..n }

\* the events the native session produces next, numbered from `first`
MkEvents(kinds, first) ==
    [ i \in 1..Len(kinds) |-> MkEvent(kinds[i], first + i - 1) ]

\* a non-streaming native response: one choice per text
ChoiceTexts == { << "hello" >>, << "bye" >> }
MkResponse(texts) ==
    [ choices |-> [ i \in 1..Len(texts) |->
                      [ text |-> texts[i], finish_reason |-> "stop" ] ],
      usage   |-> [ total_tokens |-> Len(texts) ] ]
\* the native library answers with one choice or more
Responses == { MkResponse(t) : t \in UNION { [ 1..k -> ChoiceTexts ] : k \in 1..MaxChoices } }
NoResponse == MkResponse(<< >>)

----------------------------------------------------------------------------
(* The record of one generation call *)

IdleCall ==
    [ op       |-> "none",      \* "generate" | "stream"
      via      |-> "none",      \* "self" | "bound" | "pipeline"
      stop     |-> NoList,      \* the stop argument of the entry point
      kwargs   |-> EmptyDict,   \* the **kwargs of the entry point
      rm       |-> FALSE,       \* is a run_manager passed
      native   |-> << >>,       \* calls of client.create_chat_completion
      pulls    |-> 0,           \* next() calls made on the generator
      events   |-> << >>,       \* native events taken from the session
      yielded  |-> << >>,       \* chunks handed to the consumer
      cblog    |-> << >>,       \* calls of run_manager.on_llm_new_token
      status   |-> "idle",      \* created | suspended | done | raised | returned
      inner    |-> "none",      \* how the generator _generate consumed ended
      result   |-> << >> ]      \* generations of the ChatResult returned

\* variant: the call loads a session of its own (Llama(...) per call)
SessionsBuiltByCallReloading(s) == 1

\* native sessions a generation call constructs: the call goes to self.client,
\* the session the validator stored; Llama(...) appears in the validator only
SessionsBuiltByCall(s) == 0

\* variant: the call's kwargs are not merged into the parameters
CallParamsDefaultsOnly(s, kwargs) == _get_parameters(s)

\* params = {**self._get_parameters(), **kwargs}
CallParams(s, kwargs) == Merge(_get_parameters(s), kwargs)

\* client.create_chat_completion(messages=message_dicts, [stream=True,] **params)
Dispatch(s, messages, kwargs, streamFlag) ==
    [ stream   |-> streamFlag,
      messages |-> _create_message_dicts(messages),
      params   |-> CallParams(s, kwargs) ]

----------------------------------------------------------------------------
(* Streaming generation: _stream *)

\* _convert_delta_to_message_chunk(delta, default_class)
_convert_delta_to_message_chunk(delta, default_class) ==
    [ content |-> delta.content, cls |-> default_class ]

\* generation_info of a chunk; None when the dict is empty
GenerationInfo(choice) ==
    [ finish_reason |-> IF Truthy(choice.finish_reason) THEN choice.finish_reason ELSE None,
      logprobs      |-> IF Truthy(choice.logprobs) THEN choice.logprobs ELSE None ]

ChatGenerationChunk(choice) ==
    [ message         |-> _convert_delta_to_message_chunk(choice.delta[1], "AIMessageChunk"),
      generation_info |-> GenerationInfo(choice) ]

\* chunk.text
ChunkText(chunk) == chunk.message.content

\* does the loop body skip this event (the two `continue` statements)
SkipsEvent(ev) ==
    IF Len(ev.choices) = 0 THEN TRUE
    ELSE ev.choices[1].delta = NoDelta

\* variant: the callback's exception is swallowed and the chunk yielded
YieldsAfterCallbackErrorSwallowed == TRUE

\* an exception of on_llm_new_token is not caught: the `yield` after it is not
\* reached
YieldsAfterCallbackError == FALSE

\* variant: `yield chunk` indented into the `if run_manager:` block
YieldsChunkOnlyWithManager(rm) == rm

\* `yield chunk` follows the `if run_manager:` block, it is not inside it
YieldsChunk(rm) == TRUE

\* One resumption of the generator: the loop runs over the events the session
\* produces until a chunk is yielded, the callback raises or the session is
\* exhausted.  cbRaises: the callback call made in this resumption raises.
\* Result: the generator, and the events the session has left.
RECURSIVE StreamLoop(_, _, _)
StreamLoop(g, evs, cbRaises) ==
    IF evs = << >>
    THEN [ g |-> [g EXCEPT !.status = "done"], rest |-> << >> ]
    ELSE LET ev == Head(evs)
             g1 == [g EXCEPT !.events = Append(@, ev)]
         IN  IF SkipsEvent(ev)
             THEN StreamLoop(g1, Tail(evs), cbRaises)
             ELSE LET chunk == ChatGenerationChunk(ev.choices[1])
                      g2 == IF g1.rm
                            THEN [g1 EXCEPT !.cblog = Append(@,
                                     [ token    |-> ChunkText(chunk),
                                       chunk    |-> chunk,
                                       logprobs |-> ev.choices[1].logprobs,
                                       raised   |-> cbRaises ])]
                            ELSE g1
                  IN  IF g1.rm /\ cbRaises
                      THEN [ g |-> [g2 EXCEPT
                                      !.status = "raised",
                                      !.yielded = IF YieldsAfterCallbackError
                                                  THEN Append(@, chunk) ELSE @],
                             rest |-> Tail(evs) ]
                      ELSE IF YieldsChunk(g1.rm)
                      THEN [ g |-> [g2 EXCEPT !.status = "suspended",
                                              !.yielded = Append(@, chunk)],
                             rest |-> Tail(evs) ]
                      ELSE StreamLoop(g2, Tail(evs), cbRaises)

\* the generator object _stream(...) returns: no line of the body has run
StreamCreate(via, stop, rm, kwargs) ==
    [ IdleCall EXCEPT !.op = "stream", !.via = via, !.stop = stop, !.rm = rm,
                      !.kwargs = kwargs, !.status = "created" ]

\* the body up to the loop, run by the first resumption
StreamStart(g, s, messages) ==
    IF g.status = "created"
    THEN [g EXCEPT !.native = Append(@, Dispatch(s, messages, g.kwargs, TRUE))]
    ELSE g

\* variant: after a chunk is yielded the generator takes the session's next
\* event ahead of the caller's next request
StreamResumePrefetching(g, s, messages, evs, cbRaises) ==
    LET r == StreamLoop(StreamStart([g EXCEPT !.pulls = @ + 1], s, messages),
                        evs, cbRaises)
    IN  IF r.g.status = "suspended" /\ r.rest # << >>
        THEN [ g |-> [r.g EXCEPT !.events = Append(@, Head(r.rest))],
               rest |-> Tail(r.rest) ]
        ELSE r

\* one next() on the generator: the body runs from where it was suspended to
\* the next `yield`, and takes from the session only the events the loop
\* reaches on the way
StreamResume(g, s, messages, evs, cbRaises) ==
    StreamLoop(StreamStart([g EXCEPT !.pulls = @ + 1], s, messages), evs, cbRaises)

\* the generator consumed to its end: list(stream_iter).  failAt: which call of
\* the callback raises (0: none)
RECURSIVE StreamDrain(_, _, _, _, _)
StreamDrain(g, s, messages, evs, failAt) ==
    LET r == StreamResume(g, s, messages, evs, Len(g.cblog) + 1 = failAt)
    IN  IF r.g.status \in { "done", "raised" }
        THEN r.g
        ELSE StreamDrain(r.g, s, messages, r.rest, failAt)

----------------------------------------------------------------------------
(* Non-streaming generation: _generate *)

\* string concatenation of the chunks' text, in order
RECURSIVE ConcatText(_)
ConcatText(chunks) ==
    IF chunks = << >> THEN << >>
    ELSE ChunkText(Head(chunks)) \o ConcatText(Tail(chunks))

\* generate_from_stream: the chunks added up into one generation
generate_from_stream(chunks) ==
    << [ message         |-> [ content |-> ConcatText(chunks), cls |-> "AIMessage" ],
         generation_info |-> [ finish_reason |-> None ] ] >>

\* _create_chat_result: one generation per native choice
_create_chat_result(response) ==
    [ i \in 1..Len(response.choices) |->
        [ message         |-> [ content |-> response.choices[i].text, cls |-> "AIMessage" ],
          generation_info |-> [ finish_reason |-> response.choices[i].finish_reason ] ] ]

\* the streaming branch: _stream(messages, run_manager=run_manager, **kwargs),
\* consumed by generate_from_stream
GenerateStreaming(s, via, messages, stop, rm, kwargs, nat) ==
    LET g == StreamDrain(StreamCreate(via, NoList, rm, kwargs), s, messages,
                         nat.events, nat.failAt)
    IN  [g EXCEPT !.op = "generate",
                  !.stop = stop,
                  !.inner = g.status,
                  !.status = IF g.status = "raised" THEN "raised" ELSE "returned",
                  !.result = IF g.status = "raised" THEN << >>
                             ELSE generate_from_stream(g.yielded)]

\* the non-streaming branch
GenerateDirect(s, via, messages, stop, rm, kwargs, nat) ==
    [ IdleCall EXCEPT !.op = "generate", !.via = via, !.stop = stop, !.rm = rm,
                      !.kwargs = kwargs,
                      !.native = << Dispatch(s, messages, kwargs, FALSE) >>,
                      !.status = "returned",
                      !.result = _create_chat_result(nat.response) ]

\* variant: the streaming flag is not looked at
GenerateIgnoringStreaming(s, via, messages, stop, rm, kwargs, nat) ==
    GenerateDirect(s, via, messages, stop, rm, kwargs, nat)

\* nat: what the native session and the callback do during the call
_generate(s, via, messages, stop, rm, kwargs, nat) ==
    IF s.streaming
    THEN GenerateStreaming(s, via, messages, stop, rm, kwargs, nat)
    ELSE GenerateDirect(s, via, messages, stop, rm, kwargs, nat)

----------------------------------------------------------------------------
(* Tool binding: bind_tools *)

\* a Python value of one of the types tool_choice is tested for
NoDict == [ type |-> "none" ]
PyNone == [ t |-> "NoneType", s |-> "", d |-> NoDict ]
PyTrue == [ t |-> "bool", s |-> "True", d |-> NoDict ]
PyStr(x) == [ t |-> "str", s |-> x, d |-> NoDict ]
PyInt(x) == [ t |-> "int", s |-> x, d |-> NoDict ]
PyDict(x) == [ t |-> "dict", s |-> "", d |-> x ]

\* `if tool_choice:`
PyTruthy(v) ==
    CASE v.t = "NoneType" -> FALSE
      [] v.t = "bool"     -> v.s = "True"
      [] v.t = "str"      -> v.s # ""
      [] v.t = "int"      -> v.s # "0"
      [] OTHER            -> TRUE

\* {"type": "function", "function": {"name": <<tool_name>>}}
ForcedChoice(name) == [ type |-> "function", function |-> [ name |-> name ] ]

\* the canonical descriptor convert_to_openai_tool gives for a tool-like input
convert_to_openai_tool(tool) ==
    [ type     |-> "function",
      function |-> [ name        |-> tool.name,
                     description |-> "about " \o tool.name,
                     parameters  |-> tool.form ] ]

\* tool-like inputs: a dict schema, a schema class, a callable, a tool object
ToolForms == << "dict", "class", "callable", "tool" >>
ToolInput(i) ==
    [ form |-> ToolForms[((i - 1) % Len(ToolForms)) + 1], name |-> "tool" \o ToString(i) ]
ToolLists == { [ i \in 1..n |-> ToolInput(i) ] : n \in 0..MaxTools }

ToolChoices ==
    { PyNone, PyTrue, PyStr(""), PyStr("tool1"), PyStr("tool2"), PyStr("other"),
      PyDict(ForcedChoice("tool1")), PyDict(ForcedChoice("other")), PyInt("1") }

FormatTools(tools) == [ i \in 1..Len(tools) |-> convert_to_openai_tool(tools[i]) ]
ToolNames(formatted) == { formatted[i].function.name : i \in 1..Len(formatted) }

\* the tool choice a string resolves to: the code keeps the string
ResolveString(tool_choice, formatted) == tool_choice

\* the tool choice True resolves to: formatted_tools[0]
ResolveTrue(formatted) == PyDict(formatted[1])

\* variant: the limit on the number of tools is off by one
TooManyForTrueOffByOne(formatted) == Len(formatted) > 2

\* tool_choice=True is refused for more than one tool
TooManyForTrue(formatted) == Len(formatted) > 1

\* the tool_choice branch: the error raised and the tool choice bound
ToolChoiceStep(tool_choice, formatted) ==
    IF ~PyTruthy(tool_choice)
    THEN [ err |-> "none", choice |-> tool_choice ]
    ELSE IF tool_choice.t = "dict"
    THEN IF tool_choice.d.function.name \notin ToolNames(formatted)
         THEN [ err |-> "ToolChoiceError", choice |-> tool_choice ]
         ELSE [ err |-> "none", choice |-> tool_choice ]
    ELSE IF tool_choice.t = "str"
    THEN IF tool_choice.s \notin ToolNames(formatted)
         THEN [ err |-> "ToolChoiceError", choice |-> tool_choice ]
         ELSE [ err |-> "none", choice |-> ResolveString(tool_choice, formatted) ]
    ELSE IF tool_choice.t = "bool"
    THEN IF TooManyForTrue(formatted)
         THEN [ err |-> "ToolChoiceError", choice |-> tool_choice ]
         ELSE IF Len(formatted) = 0
         THEN [ err |-> "IndexError", choice |-> tool_choice ]
         ELSE [ err |-> "none", choice |-> ResolveTrue(formatted) ]
    ELSE [ err |-> "ToolChoiceError", choice |-> tool_choice ]

NoKwargs == [ tools |-> << >>, tool_choice |-> PyNone ]

\* bind_tools: the error raised, or the kwargs of the binding it returns
\* (super().bind(tools=formatted_tools, tool_choice=tool_choice))
bind_tools(tools, tool_choice) ==
    LET formatted == FormatTools(tools)
        step == ToolChoiceStep(tool_choice, formatted)
    IN  IF step.err # "none"
        THEN [ err |-> step.err, kwargs |-> NoKwargs ]
        ELSE [ err |-> "none",
               kwargs |-> [ tools |-> formatted, tool_choice |-> step.choice ] ]

----------------------------------------------------------------------------
(* Structured output: with_structured_output *)

NoSchema == [ form |-> "none", name |-> "" ]
Schemas == { NoSchema,
             [ form |-> "class", name |-> "Answer" ],
             [ form |-> "dict", name |-> "Answer" ] }

\* the derived object a caller holds
NoHeld == [ kind |-> "none", kwargs |-> NoKwargs, include_raw |-> FALSE,
            parser |-> None, key |-> None ]

BoundModel(kwargs) == [ NoHeld EXCEPT !.kind = "bound", !.kwargs = kwargs ]

\* with_structured_output: the error raised, or the pipeline returned
with_structured_output(schema, include_raw, extra) ==
    IF extra # EmptyDict
    THEN [ err |-> "UnsupportedArgumentError", chain |-> NoHeld ]
    ELSE IF schema = NoSchema
    THEN [ err |-> "SchemaError", chain |-> NoHeld ]
    ELSE LET llm == bind_tools(<< schema >>, PyTrue)
         IN  IF llm.err # "none"
             THEN [ err |-> llm.err, chain |-> NoHeld ]
             ELSE [ err |-> "none",
                    chain |-> [ kind        |-> "pipeline",
                                kwargs      |-> llm.kwargs,
                                include_raw |-> include_raw,
                                parser      |-> IF schema.form = "class"
                                                THEN "PydanticToolsParser"
                                                ELSE "JsonOutputKeyToolsParser",
                                key         |-> IF schema.form = "class" THEN None
                                                ELSE convert_to_openai_tool(schema).function.name ] ]

\* a step of a pipeline: it returned val, or raised err
Returned(v) == [ ok |-> TRUE, val |-> v, err |-> None ]
Raised(e, v) == [ ok |-> FALSE, val |-> v, err |-> e ]

NoParsed == << >>

\* the output parser on the raw message: the parsed object, or a parse error
OutputParser(chain, raw, parseOk) ==
    IF parseOk
    THEN Returned([ by |-> chain.parser, key |-> chain.key, of |-> raw.content ])
    ELSE Raised("OutputParserException", [ by |-> chain.parser, key |-> chain.key,
                                           of |-> raw.content ])

\* RunnableMap(raw=llm)
RunnableMapRaw(raw) == [ raw |-> raw ]

\* RunnablePassthrough.assign(parsed=itemgetter("raw") | output_parser,
\*                            parsing_error=lambda _: None)
ParserAssign(chain, d, parseOk) ==
    LET p == OutputParser(chain, d.raw, parseOk)
    IN  IF p.ok
        THEN Returned([ raw |-> d.raw, parsed |-> << p.val >>, parsing_error |-> None ])
        ELSE Raised(p.err, [ raw |-> d.raw, parsed |-> NoParsed, parsing_error |-> None ])

\* RunnablePassthrough.assign(parsed=lambda _: None), on the input the fallback
\* hands it: the first step's input with the exception under exception_key
ParserNone(d, e) ==
    Returned([ raw |-> d.raw, parsed |-> NoParsed, parsing_error |-> e ])

\* parser_assign.with_fallbacks([parser_none], exception_key="parsing_error")
ParserWithFallback(chain, d, parseOk) ==
    LET first == ParserAssign(chain, d, parseOk)
    IN  IF first.ok THEN first ELSE ParserNone(d, first.err)

\* variant: the include_raw pipeline is built without the fallback
StructuredTailNoFallback(chain, raw, parseOk) ==
    IF chain.include_raw
    THEN ParserAssign(chain, RunnableMapRaw(raw), parseOk)
    ELSE OutputParser(chain, raw, parseOk)

\* the pipeline after the model step: RunnableMap(raw=llm) | parser_with_fallback
\* when include_raw, llm | output_parser otherwise
StructuredTail(chain, raw, parseOk) ==
    IF chain.include_raw
    THEN ParserWithFallback(chain, RunnableMapRaw(raw), parseOk)
    ELSE OutputParser(chain, raw, parseOk)

----------------------------------------------------------------------------
(* Observations of the calls *)

NoBindOut ==
    [ op |-> "none", tools |-> << >>, tool_choice |-> PyNone, schema |-> NoSchema,
      include_raw |-> FALSE, err |-> "none", obj |-> NoHeld ]

NoOut == [ status |-> "none", parse |-> "none", error |-> None, value |-> << >> ]

\* no call is being observed: the caller is between two calls
Idle == bindOut = NoBindOut /\ call = IdleCall /\ out = NoOut

\* inputs of a generation call
StopArgs == { NoList, Some(<< "HALT" >>) }
Overrides == { EmptyDict, [ temperature |-> "0.1" ] }

\* the handles a generation call can be made through
Handles == { "self" } \cup (IF held.kind = "bound" THEN { "bound" } ELSE {})

\* RunnableBinding: the bound kwargs under the call's own
KwargsVia(via, kw) == IF via = "bound" THEN Merge(held.kwargs, kw) ELSE kw

NumDeltas(kinds) == Cardinality({ i \in 1..Len(kinds) : kinds[i] = "delta" })

\* what the native session and the callback may do during one _generate
NativeBehaviours(s, rm) ==
    IF s.streaming
    THEN UNION { { [ events |-> MkEvents(k, 1), failAt |-> f, response |-> NoResponse ]
                   : f \in IF rm THEN 0..NumDeltas(k) ELSE { 0 } }
                 : k \in KindSeqs(MaxEvents) }
    ELSE { [ events |-> << >>, failAt |-> 0, response |-> r ] : r \in Responses }

----------------------------------------------------------------------------
(* The state machine *)

Init ==
    /\ pc = "new"
    /\ env = NoEnv
    /\ values = NoValues
    /\ self = Fields(NoValues)
    /\ ctorErr = "none"
    /\ nclients = 0
    /\ held = NoHeld
    /\ bindOut = NoBindOut
    /\ call = IdleCall
    /\ out = NoOut

\* ChatLlamaCpp(**values): the root validator runs once
Construct ==
    /\ pc = "new"
    /\ \E v \in ValuesSet, e \in EnvSet :
         LET r == validate_environment(Fields(v), e)
         IN  /\ values' = v
             /\ env' = e
             /\ self' = r.vals
             /\ ctorErr' = r.err
             /\ nclients' = nclients + r.built
             /\ pc' = IF r.err = "none" THEN "ready" ELSE "failed"
    /\ UNCHANGED << held, bindOut, call, out >>

\* model._generate(messages, stop, run_manager, **kwargs), on the adapter or
\* through a bound model
Generate ==
    /\ pc = "ready" /\ Idle
    /\ \E via \in Handles, stop \in StopArgs, rm \in BOOLEAN, kw \in Overrides :
         \E nat \in NativeBehaviours(self, rm) :
             call' = _generate(self, via, Messages, stop, rm, KwargsVia(via, kw), nat)
    /\ self' = SelfAfterGetParameters(self)
    /\ nclients' = nclients + SessionsBuiltByCall(self)
    /\ UNCHANGED << pc, env, values, ctorErr, held, bindOut, out >>

\* model._stream(messages, stop, run_manager, **kwargs): the generator object
Stream ==
    /\ pc = "ready" /\ Idle
    /\ \E via \in Handles, stop \in StopArgs, rm \in BOOLEAN, kw \in Overrides :
         call' = StreamCreate(via, stop, rm, KwargsVia(via, kw))
    /\ UNCHANGED << pc, env, values, self, ctorErr, nclients, held, bindOut, out >>

\* next(generator): the caller asks for the next chunk
StreamNext ==
    /\ pc = "ready"
    /\ call.op = "stream" /\ call.status \in { "created", "suspended" }
    /\ \E kinds \in KindSeqs(MaxEvents - Len(call.events)),
          cbRaises \in (IF call.rm THEN BOOLEAN ELSE { FALSE }) :
         LET r == StreamResume(call, self, Messages,
                               MkEvents(kinds, Len(call.events) + 1), cbRaises)
         IN  /\ r.rest = << >>
             /\ cbRaises => r.g.status = "raised"
             /\ call' = r.g
    /\ self' = IF call.status = "created" THEN SelfAfterGetParameters(self) ELSE self
    /\ nclients' = IF call.status = "created"
                   THEN nclients + SessionsBuiltByCall(self) ELSE nclients
    /\ UNCHANGED << pc, env, values, ctorErr, held, bindOut, out >>

\* model.bind_tools(tools, tool_choice=...)
BindTools ==
    /\ pc = "ready" /\ Idle
    /\ \E tools \in ToolLists, tc \in ToolChoices :
         LET r == bind_tools(tools, tc)
             obj == IF r.err = "none" THEN BoundModel(r.kwargs) ELSE NoHeld
         IN  /\ bindOut' = [ NoBindOut EXCEPT !.op = "bind_tools", !.tools = tools,
                                              !.tool_choice = tc, !.err = r.err,
                                              !.obj = obj ]
             /\ held' = IF r.err = "none" THEN obj ELSE held
    /\ UNCHANGED << pc, env, values, self, ctorErr, nclients, call, out >>

\* model.with_structured_output(schema, include_raw=..., **kwargs)
WithStructuredOutput ==
    /\ pc = "ready" /\ Idle
    /\ \E schema \in Schemas, inc \in BOOLEAN,
          extra \in { EmptyDict, [ method |-> "json_mode" ] } :
         LET r == with_structured_output(schema, inc, extra)
         IN  /\ bindOut' = [ NoBindOut EXCEPT !.op = "with_structured_output",
                                              !.schema = schema, !.include_raw = inc,
                                              !.err = r.err, !.obj = r.chain ]
             /\ held' = IF r.err = "none" THEN r.chain ELSE held
    /\ UNCHANGED << pc, env, values, self, ctorErr, nclients, call, out >>

\* pipeline.invoke(input): the bound model generates, then the parser runs
InvokePipeline ==
    /\ pc = "ready" /\ Idle
    /\ held.kind = "pipeline"
    /\ \E nat \in NativeBehaviours(self, TRUE), parseOk \in BOOLEAN :
         LET c == _generate(self, "pipeline", Messages, NoList, TRUE, held.kwargs, nat)
         IN  /\ call' = c
             /\ out' = IF c.status = "raised"
                       THEN [ NoOut EXCEPT !.status = "raised", !.error = "CallbackError" ]
                       ELSE LET t == StructuredTail(held, c.result[1].message, parseOk)
                            IN  [ status |-> IF t.ok THEN "returned" ELSE "raised",
                                  parse  |-> IF parseOk THEN "ok" ELSE "failed",
                                  error  |-> t.err,
                                  value  |-> IF t.ok THEN << t.val >> ELSE << >> ]
    /\ self' = SelfAfterGetParameters(self)
    /\ nclients' = nclients + SessionsBuiltByCall(self)
    /\ UNCHANGED << pc, env, values, ctorErr, held, bindOut >>

\* the caller is done with what the last call gave it: the result is dropped,
\* a generator is closed
Release ==
    /\ pc = "ready" /\ ~Idle
    /\ bindOut' = NoBindOut
    /\ call' = IdleCall
    /\ out' = NoOut
    /\ UNCHANGED << pc, env, values, self, ctorErr, nclients, held >>

Next ==
    \/ Construct
    \/ Generate
    \/ Stream
    \/ StreamNext
    \/ BindTools
    \/ WithStructuredOutput
    \/ InvokePipeline
    \/ Release

Spec == Init /\ [][Next]_vars

----------------------------------------------------------------------------
(* Properties *)

\* the events of a stream that carry a chunk: a choice list that is not empty
\* and a first choice whose delta is not null
CarriesDelta(ev) == Len(ev.choices) > 0 /\ ev.choices[1].delta # NoDelta
DeltaEvents(evs) == SelectSeq(evs, CarriesDelta)
DeltaText(ev) == ev.choices[1].delta[1].content
NumSkipped(evs) == Len(evs) - Len(DeltaEvents(evs))

\* the call runs the streaming path: a generator, or _generate in streaming mode
OnStreamingPath ==
    \/ call.op = "stream"
    \/ call.op = "generate" /\ self.streaming

\* C1: as long as no callback has raised, the chunks the streaming path has
\* yielded are, one per event and in the order received, the chunks of the
\* events taken from the session that have a non-empty choice list and a
\* non-null delta; the other events yield nothing, so the number of chunks is
\* the number of events less the number of empty-choice or null-delta events.
C1_StreamYieldsDeltasInOrder ==
    (OnStreamingPath /\ call.status # "raised") =>
        /\ Len(call.yielded) = Len(call.events) - NumSkipped(call.events)
        /\ \A i \in 1..Len(call.yielded) :
             /\ i <= Len(DeltaEvents(call.events))
             /\ ChunkText(call.yielded[i]) = DeltaText(DeltaEvents(call.events)[i])

\* a generator ran to its end over three events, one of them skipped between
\* two that carried a chunk
C1_Witness ==
    /\ call.op = "stream" /\ call.status = "done"
    /\ Len(call.events) = 3
    /\ CarriesDelta(call.events[1]) /\ ~CarriesDelta(call.events[2])
    /\ CarriesDelta(call.events[3])
    /\ Len(call.yielded) = 2

\* both grammar fields were supplied, non-empty
BothGrammars == Truthy(values.grammar) /\ Truthy(values.grammar_path)

\* C2 as stated: construction with both an inline grammar and a grammar file
\* path fails with a ConfigurationError whatever the session constructor does.
C2_Original ==
    (pc # "new" /\ BothGrammars /\ env.importable) =>
        (pc = "failed" /\ ctorErr = "ConfigurationError")

\* C2, amended: construction with both grammar fields set always fails; the
\* failure is the ConfigurationError when the session constructor succeeds,
\* and the ModelLoadError when the session constructor throws (the session is
\* constructed before the grammar fields are looked at); without the native
\* library it is the ImportError.
C2_BothGrammarsAlwaysFail ==
    (pc # "new" /\ BothGrammars) =>
        /\ pc = "failed"
        /\ ctorErr # "none"
        /\ (env.importable /\ env.loads) => ctorErr = "ConfigurationError"
        /\ (env.importable /\ ~env.loads) => ctorErr = "ModelLoadError"
        /\ ~env.importable => ctorErr = "ImportError"

\* construction was called with both grammar fields, the session loaded
C2_Witness ==
    /\ pc = "failed" /\ BothGrammars
    /\ env.importable /\ env.loads
    /\ ctorErr = "ConfigurationError"

\* C3: bind_tools with tool_choice=True binds the single tool as the tool
\* choice when exactly one tool is passed, and raises a ToolChoiceError,
\* returning no bound object, when two or more are passed.
C3_ToolChoiceTrue ==
    (bindOut.op = "bind_tools" /\ bindOut.tool_choice = PyTrue) =>
        /\ Len(bindOut.tools) = 1 =>
             /\ bindOut.err = "none"
             /\ bindOut.obj.kind = "bound"
             /\ bindOut.obj.kwargs.tools = << convert_to_openai_tool(bindOut.tools[1]) >>
             /\ bindOut.obj.kwargs.tool_choice
                    = PyDict(convert_to_openai_tool(bindOut.tools[1]))
        /\ Len(bindOut.tools) >= 2 =>
             /\ bindOut.err = "ToolChoiceError"
             /\ bindOut.obj = NoHeld

\* bind_tools was called with tool_choice=True and two tools
C3_Witness ==
    /\ bindOut.op = "bind_tools" /\ bindOut.tool_choice = PyTrue
    /\ Len(bindOut.tools) = 2
    /\ bindOut.err = "ToolChoiceError"

\* the names of the normalized tools of the last bind_tools call
BoundToolNames == ToolNames(FormatTools(bindOut.tools))

\* C4 as stated: bind_tools with a string tool_choice raises a ToolChoiceError
\* when the string names none of the tools, and when it names one of them the
\* call succeeds and the bound tool choice is that tool's forced-choice dict,
\* not the string.  (Read for a string that is not empty: the empty string is
\* falsy and is handled as no tool choice at all.)
C4_StringToolChoice ==
    (bindOut.op = "bind_tools" /\ bindOut.tool_choice.t = "str"
                               /\ bindOut.tool_choice.s # "") =>
        /\ bindOut.tool_choice.s \notin BoundToolNames =>
             bindOut.err = "ToolChoiceError"
        /\ bindOut.tool_choice.s \in BoundToolNames =>
             /\ bindOut.err = "none"
             /\ bindOut.obj.kwargs.tool_choice
                    = PyDict(ForcedChoice(bindOut.tool_choice.s))

\* C5: when the parser fails on the model's output the pipeline raises the
\* parse error exactly when include_raw is false; with include_raw it returns
\* the record {raw, parsed: None, parsing_error: the error}; when the parser
\* succeeds with include_raw the record has parsing_error None and parsed set
\* to the parser's result.
C5_ParseFailureCapturedOrRaised ==
    (out.status # "none" /\ out.parse # "none") =>
        /\ out.parse = "failed" =>
             /\ (out.status = "raised") <=> ~held.include_raw
             /\ ~held.include_raw => out.error = "OutputParserException"
             /\ held.include_raw =>
                  /\ out.status = "returned"
                  /\ out.value[1].raw = call.result[1].message
                  /\ out.value[1].parsed = NoParsed
                  /\ out.value[1].parsing_error = "OutputParserException"
        /\ (out.parse = "ok" /\ held.include_raw) =>
             /\ out.status = "returned"
             /\ out.value[1].raw = call.result[1].message
             /\ out.value[1].parsing_error = None
             /\ out.value[1].parsed
                    = << OutputParser(held, call.result[1].message, TRUE).val >>

\* an include_raw pipeline returned after its parser failed
C5_Witness ==
    /\ held.kind = "pipeline" /\ held.include_raw
    /\ out.parse = "failed" /\ out.status = "returned"

\* C6 as stated: when a stop override is passed to a generation call, the stop
\* list dispatched to the native session for that call is the override; the
\* configured stop list is used only when none is given.
C6_StopOverrideDispatched ==
    \A i \in 1..Len(call.native) :
        call.native[i].params.stop =
            IF call.stop # NoList THEN call.stop[1] ELSE OrEmptyList(self.stop)

\* C7: on an adapter configured with streaming on, _generate makes one
\* streaming call to the native session, with the parameters the streaming
\* path uses for the same kwargs, and no non-streaming call; it consumes the
\* generator to its end and, unless a callback raised, returns one generation
\* whose content is the chunks' content concatenated in order.
C7_GenerateAggregatesStream ==
    (call.op = "generate" /\ self.streaming) =>
        /\ call.native = << Dispatch(self, Messages, call.kwargs, TRUE) >>
        /\ call.inner \in { "done", "raised" }
        /\ (call.status = "returned") <=> (call.inner = "done")
        /\ call.status = "returned" =>
             /\ Len(call.result) = 1
             /\ call.result[1].message.content = ConcatText(call.yielded)
             /\ Len(call.yielded) = Len(DeltaEvents(call.events))

\* _generate in streaming mode returned the aggregate of two chunks
C7_Witness ==
    /\ call.op = "generate" /\ self.streaming
    /\ call.status = "returned"
    /\ Len(call.yielded) = 2
    /\ call.result[1].message.content = << 1, 3 >>

\* C8: every native call of a generation made through the bound model (or the
\* pipeline's bound model) carries the tool list and the tool choice of the
\* binding; a generation made through the adapter itself carries neither.
C8_BoundKwargsDispatched ==
    \A i \in 1..Len(call.native) :
        LET params == call.native[i].params
        IN  /\ call.via \in { "bound", "pipeline" } =>
                 /\ held.kind = (IF call.via = "bound" THEN "bound" ELSE "pipeline")
                 /\ "tools" \in DOMAIN params /\ "tool_choice" \in DOMAIN params
                 /\ params.tools = held.kwargs.tools
                 /\ params.tool_choice = held.kwargs.tool_choice
            /\ call.via = "self" =>
                 /\ "tools" \notin DOMAIN params
                 /\ "tool_choice" \notin DOMAIN params

\* a generation through a bound model with two tools reached the session
C8_Witness ==
    /\ call.via = "bound" /\ Len(call.native) = 1
    /\ Len(held.kwargs.tools) = 2
    /\ call.native[1].params.tools = held.kwargs.tools

\* the chunks the callback was called with, in call order
CallbackChunks == [ i \in 1..Len(call.cblog) |-> call.cblog[i].chunk ]

\* C9: with a callback registered the streaming path calls it once per emitted
\* chunk, in order and before the chunk is yielded, never for a skipped event;
\* when a call of it raises, the generator ends with that exception, the chunk
\* it was called for is not yielded and no later event is taken or chunk
\* yielded.  Without a callback none is called.
C9_CallbackPerChunk ==
    OnStreamingPath =>
        /\ ~call.rm => call.cblog = << >>
        /\ (call.rm /\ call.status # "raised") =>
             /\ CallbackChunks = call.yielded
             /\ \A i \in 1..Len(call.cblog) : ~call.cblog[i].raised
        /\ (call.rm /\ call.status = "raised") =>
             /\ Len(call.cblog) = Len(call.yielded) + 1
             /\ \A i \in 1..Len(call.yielded) :
                  CallbackChunks[i] = call.yielded[i] /\ ~call.cblog[i].raised
             /\ call.cblog[Len(call.cblog)].raised
             /\ CarriesDelta(call.events[Len(call.events)])
             /\ ChunkText(CallbackChunks[Len(call.cblog)])
                    = DeltaText(call.events[Len(call.events)])
             /\ ~ENABLED StreamNext
        /\ call.rm =>
             /\ Len(call.cblog) = Len(DeltaEvents(call.events))
             /\ \A i \in 1..Len(call.cblog) :
                  call.cblog[i].token = DeltaText(DeltaEvents(call.events)[i])

\* the callback raised on the second chunk of a generator: the first chunk
\* was yielded, the second was not
C9_Witness ==
    /\ call.op = "stream" /\ call.rm /\ call.status = "raised"
    /\ Len(call.cblog) = 2 /\ Len(call.yielded) = 1

\* the adapter as construction left it
ConstructedSelf == validate_environment(Fields(values), env).vals

\* C10: after construction no generation, streaming, bind_tools or
\* with_structured_output call changes a field of the adapter: its
\* default-parameter view has the keys and the values it had after
\* construction.
C10_ConfigurationUnchanged ==
    pc = "ready" =>
        /\ self = ConstructedSelf
        /\ DOMAIN _default_params(self) = DOMAIN _default_params(ConstructedSelf)
        /\ _default_params(self) = _default_params(ConstructedSelf)

\* a pipeline built by with_structured_output, over a bound model, has
\* generated on an adapter constructed without a stop list
C10_Witness ==
    /\ pc = "ready" /\ values.stop = NoList
    /\ held.kind = "pipeline"
    /\ call.op = "generate" /\ call.status = "returned"

\* the last native event the call has taken
LastEvent == call.events[Len(call.events)]

\* C11: streaming is pull-driven.  Before the first request the generator has
\* made no native call, taken no event and called no callback; at every point
\* the chunks yielded, the callback calls and the chunk-carrying events taken
\* are at most the requests made; a suspended generator has answered every
\* request with a chunk and the last event it took is the one that chunk came
\* from (nothing is read ahead); and a step that is not a request of the
\* caller takes no event and calls no callback.
C11_PullDriven ==
    /\ [](call.op = "stream" =>
            /\ Len(call.yielded) <= call.pulls
            /\ Len(call.cblog) <= call.pulls
            /\ Len(DeltaEvents(call.events)) <= call.pulls
            /\ call.status = "created" =>
                 /\ call.pulls = 0 /\ call.native = << >>
                 /\ call.events = << >> /\ call.cblog = << >>
            /\ call.status = "suspended" =>
                 /\ Len(call.yielded) = call.pulls
                 /\ call.events # << >> /\ CarriesDelta(LastEvent)
                 /\ ChunkText(call.yielded[Len(call.yielded)]) = DeltaText(LastEvent)
            /\ call.status \in { "done", "raised" } =>
                 Len(call.yielded) = call.pulls - 1)
    /\ [][(call.op = "stream" /\ call'.op = "stream" /\ call'.pulls = call.pulls) =>
            (call'.events = call.events /\ call'.cblog = call.cblog
                                       /\ call'.native = call.native)]_vars

\* a generator with a callback is suspended after its second request: it took
\* three events, one of them skipped, and called the callback twice
C11_Witness ==
    /\ call.op = "stream" /\ call.status = "suspended" /\ call.rm
    /\ call.pulls = 2 /\ Len(call.events) = 3 /\ Len(call.cblog) = 2

\* C12: a successful construction constructs exactly one native session and
\* stores it as the adapter's client; no generation, streaming, bind_tools or
\* with_structured_output call after it constructs another, so on a constructed
\* adapter the number of sessions constructed is one in every state.
C12_OneNativeSession ==
    /\ pc = "ready" => (nclients = 1 /\ self.client = "Llama")
    /\ pc = "new" => nclients = 0

\* a constructed adapter was bound to tools and a generator obtained through
\* the bound model ran to its end
C12_Witness ==
    /\ pc = "ready" /\ nclients = 1
    /\ held.kind = "bound"
    /\ call.op = "stream" /\ call.via = "bound" /\ call.status = "done"
    /\ Len(call.native) = 1

\* the stop list a configuration asks for: the configured list, the empty list
\* when none is configured
ConfiguredStop == IF self.stop = NoList THEN << >> ELSE self.stop[1]

\* C13: for every configuration of a constructed adapter the parameter map
\* prepared from the defaults has the key stop, holding the configured stop
\* list or the empty list when none is configured, has no key stop_sequences,
\* and has every other default parameter under its own key with its own
\* value and no key besides; every map dispatched to the native session has
\* the key stop and no key stop_sequences.
C13_StopKeyRenamed ==
    pc = "ready" =>
        LET p == _get_parameters(self)
            d == _default_params(self)
        IN  /\ "stop_sequences" \in DOMAIN d /\ "stop" \notin DOMAIN d
            /\ "stop" \in DOMAIN p /\ p.stop = ConfiguredStop
            /\ "stop_sequences" \notin DOMAIN p
            /\ DOMAIN p = ((DOMAIN d) \ { "stop_sequences" }) \cup { "stop" }
            /\ \A k \in (DOMAIN d) \ { "stop_sequences" } : p[k] = d[k]
            /\ \A i \in 1..Len(call.native) :
                 /\ "stop_sequences" \notin DOMAIN call.native[i].params
                 /\ "stop" \in DOMAIN call.native[i].params
                 /\ call.native[i].params.stop = ConfiguredStop

\* an adapter configured with a stop list and a grammar dispatched a
\* non-streaming call: the map carries the list under stop, and the grammar
C13_Witness ==
    /\ pc = "ready" /\ ~self.streaming
    /\ values.stop = Some(<< "STOP" >>) /\ Truthy(self.grammar)
    /\ call.op = "generate" /\ Len(call.native) = 1
    /\ call.native[1].params.stop = << "STOP" >>
    /\ "grammar" \in DOMAIN call.native[1].params

====
